---- MODULE Spec2Model ----
(***************************************************************************)
(* pypiuploader: Command.run (commands.py), PackageUploader (upload.py),   *)
(* PackageDownloader (download.py) and the .pypirc resolver (pypirc.py).   *)
(*                                                                         *)
(* Python values: None is the string None; a str is a TLA+ string; a file  *)
(* path is the sequence of its components (os.path.basename is the last   *)
(* one); a formatted message is the sequence of its pieces, so that       *)
(* formatting a path into a message embeds every component of the path.   *)
(***************************************************************************)
EXTENDS Integers, Sequences, FiniteSets, TLC

VARIABLES
    options,      \* argparse.Namespace handed to Command
    rcfile,       \* the .pypirc file on disk (exists or not, and its content)
    pc,           \* position of the running call
    uploader,     \* the PackageUploader built by the run
    made,         \* number of PackageUploader instances constructed
    repo_config,  \* what RCParser.get_repository_config returned
    filenames,    \* the list _upload_files iterates over
    idx,          \* index in filenames of the file being uploaded
    files,        \* the multipart files of the upload in progress
    response,     \* the response of the POST in progress
    result,       \* how the last PackageUploader.upload call ended
    stdout,       \* everything written to Command.stdout, in order
    log,          \* I/O performed: file reads, POSTs, pip runs, in order
    raised,       \* the exception that left the call (type "" when none)
    nextId,       \* identity of the next requests.Response object
    ret,          \* what the method called on its own returned
    downloader    \* the PackageDownloader (its download_path)

vars == <<options, rcfile, pc, uploader, made, repo_config, filenames, idx,
          files, response, result, stdout, log, raised, nextId, ret, downloader>>

-----------------------------------------------------------------------------
(* Bounds of the model *)

MaxFiles == 2

MaxEntries == 2

-----------------------------------------------------------------------------
(* Python values *)

None == "None"

\* bool(x) of an optional str
Truthy(x) == x /= None /\ x /= ""

\* x or y
PyOr(x, y) == IF Truthy(x) THEN x ELSE y

Ok(v) == [kind |-> "ok", value |-> v]

NoResponse == [id |-> 0, status_code |-> 0, reason |-> ""]

Exc(type, message, resp) == [type |-> type, message |-> message, response |-> resp]

NoExc == Exc("", <<>>, NoResponse)

Raise(e) == [kind |-> "raise", exc |-> e]

-----------------------------------------------------------------------------
(* The values the inputs are drawn from *)

UrlA == "http://127.0.0.1:8000"
UrlB == "http://localhost:8000"

ServerNames == {"internal", "external"}

Identifiers == {"internal", UrlA, UrlB}

ExplicitUsernames == {None, "", "alice"}
ExplicitPasswords == {None, "", "secret"}

Paths == { <<"a.tar.gz">>, <<"packages", "b.tar.gz">> }

Contents == {"bytes1", "bytes2"}

\* (status code, reason phrase) of the answers of the server
ServerAnswers ==
    { <<200, "OK">>, <<201, "Created">>, <<304, "Not Modified">>,
      <<401, "Unauthorized">>, <<401, "Foo bar">>, <<409, "Conflict">>,
      <<500, "Internal Server Error">> }

RECURSIVE SeqsUpTo(_, _)
SeqsUpTo(S, n) ==
    IF n = 0 THEN { <<>> }
    ELSE LET shorter == SeqsUpTo(S, n - 1)
         IN  shorter \cup { Append(s, x) : s \in shorter, x \in S }

-----------------------------------------------------------------------------
(* The .pypirc file: pypiuploader/pypirc.py, RCParser.                      *)
(* An ini document: the distutils section is absent, present without the   *)
(* index-servers option, or present with it; every server name has a       *)
(* section or none, and the section holds each of its keys or not.         *)

Missing == "<missing>"

NoSectionRec == [present |-> FALSE, repository |-> Missing,
                 username |-> Missing, password |-> Missing]

Sections ==
    { NoSectionRec } \cup
    [present : {TRUE}, repository : {Missing, UrlA, "internal"},
     username : {Missing, "bar"}, password : {Missing, "foo"}]

\* index-servers values: the declared names, one entry per line
IndexServerValues ==
    { <<>>, <<"internal">>, <<"external">>,
      <<"internal", "external">>, <<"external", "internal">> }

NoFile == [path |-> None, exists |-> FALSE, distutils |-> "absent", index_servers |-> <<>>,
           sections |-> [n \in ServerNames |-> NoSectionRec]]

Docs ==
    [path : {None}, exists : {TRUE}, distutils : {"absent", "noopt"},
     index_servers : { <<>> }, sections : [ServerNames -> Sections]]
    \cup
    [path : {None}, exists : {TRUE}, distutils : {"ok"},
     index_servers : IndexServerValues, sections : [ServerNames -> Sections]]

\* configparser: config.get(section, option)
ConfigGet(doc, section, option) ==
    IF section \notin DOMAIN doc.sections \/ ~doc.sections[section].present
    THEN Raise(Exc("NoSectionError", <<section>>, NoResponse))
    ELSE IF doc.sections[section][option] = Missing
    THEN Raise(Exc("NoOptionError", <<option, section>>, NoResponse))
    ELSE Ok(doc.sections[section][option])

\* RCParser.CONFIG_PATH
ConfigPath == "~/.pypirc"

\* from_file whose error does not say which path was not found
C20_FromFileWithoutPath(file) ==
    IF ~file.exists
    THEN Raise(Exc("ConfigFileError", <<"Config file not found">>, NoResponse))
    ELSE Ok(file)

\* RCParser.from_file: file is the file at the path given (None: CONFIG_PATH)
FromFile(file) ==
    IF ~file.exists
    THEN Raise(Exc("ConfigFileError",
                   <<"Config file not found: ", PyOr(file.path, ConfigPath)>>,
                   NoResponse))
    ELSE Ok(file)

\* the entries of index-servers returned as they are split
C24_EntriesAsSplit(entries) == entries

\* the declared names with only the blank entries left out
C17_NonBlankEntries(entries) == SelectSeq(entries, LAMBDA e : e /= "")

RECURSIVE DeclaredNames(_)
DeclaredNames(entries) ==
    IF entries = <<>> THEN <<>>
    ELSE LET rest == DeclaredNames(Tail(entries))
         IN  IF Head(entries) = "" \/ Head(entries) = "pypi"
             THEN rest ELSE <<Head(entries)>> \o rest

\* _read_index_servers taking a distutils section without index-servers as empty
C16_ReadIndexServersLenient(doc) ==
    IF doc.distutils \in {"absent", "noopt"} THEN Ok(<<>>)
    ELSE Ok(DeclaredNames(doc.index_servers))

\* RCParser._read_index_servers
ReadIndexServers(doc) ==
    IF doc.distutils = "absent" THEN Ok(<<>>)
    ELSE IF doc.distutils = "noopt"
    THEN Raise(Exc("NoOptionError", <<"index-servers", "distutils">>, NoResponse))
    ELSE Ok(DeclaredNames(doc.index_servers))

\* _read_server_auth with the password as required as the username
C18_ReadServerAuthBothRequired(doc, server) ==
    LET username == ConfigGet(doc, server, "username")
        password == ConfigGet(doc, server, "password")
    IN  IF username.kind = "raise" THEN username
        ELSE IF password.kind = "raise" THEN password
        ELSE Ok(<<username.value, password.value>>)

\* RCParser._read_server_auth
ReadServerAuth(doc, server) ==
    LET username == ConfigGet(doc, server, "username")
        password == ConfigGet(doc, server, "password")
    IN  IF username.kind = "raise" THEN username
        ELSE Ok(<<username.value,
                  IF password.kind = "raise" THEN None ELSE password.value>>)

NoneConfig == [none |-> TRUE, repository |-> None, username |-> None, password |-> None]

RepositoryConfig(repository, username, password) ==
    [none |-> FALSE, repository |-> repository, username |-> username,
     password |-> password]

\* the config of a section with the username as optional as the password
C19_ReadServerConfigUsernameOptional(doc, server) ==
    LET repository == ConfigGet(doc, server, "repository")
        username == ConfigGet(doc, server, "username")
        password == ConfigGet(doc, server, "password")
    IN  IF repository.kind = "raise" THEN repository
        ELSE Ok(RepositoryConfig(repository.value,
                                 IF username.kind = "raise" THEN None ELSE username.value,
                                 IF password.kind = "raise" THEN None ELSE password.value))

\* the RepositoryConfig of one server's section
ReadServerConfig(doc, server) ==
    LET repository == ConfigGet(doc, server, "repository")
        auth == ReadServerAuth(doc, server)
    IN  IF repository.kind = "raise" THEN repository
        ELSE IF auth.kind = "raise" THEN auth
        ELSE Ok(RepositoryConfig(repository.value, auth.value[1], auth.value[2]))

\* the scan by repository value in which the last declared match wins
RECURSIVE C14_FindLastByRepository(_, _, _)
C14_FindLastByRepository(doc, servers, repository) ==
    IF servers = <<>> THEN Ok(NoneConfig)
    ELSE LET url == ConfigGet(doc, Head(servers), "repository")
             rest == C14_FindLastByRepository(doc, Tail(servers), repository)
         IN  IF url.kind = "raise" THEN url
             ELSE IF rest.kind = "raise" THEN rest
             ELSE IF ~rest.value.none THEN rest
             ELSE IF url.value = repository
             THEN ReadServerConfig(doc, Head(servers))
             ELSE rest

RECURSIVE FindByRepository(_, _, _)
FindByRepository(doc, servers, repository) ==
    IF servers = <<>> THEN Ok(NoneConfig)
    ELSE LET url == ConfigGet(doc, Head(servers), "repository")
         IN  IF url.kind = "raise" THEN url
             ELSE IF url.value = repository
             THEN ReadServerConfig(doc, Head(servers))
             ELSE FindByRepository(doc, Tail(servers), repository)

\* _find_repo_config with the repository values looked at before the names
C13_FindRepoConfigUrlFirst(doc, servers, repository) ==
    LET byUrl == FindByRepository(doc, servers, repository)
    IN  IF byUrl.kind = "raise" THEN byUrl
        ELSE IF ~byUrl.value.none THEN byUrl
        ELSE IF \E i \in 1..Len(servers) : servers[i] = repository
        THEN ReadServerConfig(doc, repository)
        ELSE byUrl

\* _find_repo_config looking up by name any section the file holds, declared or not
C15_FindRepoConfigAnySection(doc, servers, repository) ==
    IF repository \in DOMAIN doc.sections /\ doc.sections[repository].present
    THEN ReadServerConfig(doc, repository)
    ELSE FindByRepository(doc, servers, repository)

\* RCParser._find_repo_config
FindRepoConfig(doc, servers, repository) ==
    IF \E i \in 1..Len(servers) : servers[i] = repository
    THEN ReadServerConfig(doc, repository)
    ELSE FindByRepository(doc, servers, repository)

\* RCParser.get_repository_config
GetRepositoryConfig(doc, repository) ==
    LET servers == ReadIndexServers(doc)
    IN  IF servers.kind = "raise" THEN servers
        ELSE FindRepoConfig(doc, servers.value, repository)

-----------------------------------------------------------------------------
(* pypiuploader/upload.py, PackageUploader *)

NoUploader == [host |-> None, username |-> None, password |-> None,
               data |-> <<>>, auth |-> <<>>]

\* __init__ configuring the authentication as soon as either credential is there
C22_NewUploaderAuthIfAny(host, username, password) ==
    [host |-> host, username |-> username, password |-> password,
     data |-> << <<":action", "file_upload">> >>,
     auth |-> IF Truthy(username) \/ Truthy(password) THEN <<username, password>>
              ELSE <<>>]

\* PackageUploader.__init__
NewUploader(host, username, password) ==
    [host |-> host, username |-> username, password |-> password,
     data |-> << <<":action", "file_upload">> >>,
     auth |-> IF Truthy(username) THEN <<username, password>> ELSE <<>>]

\* the explicit pair taken as a whole once a username is given
C9_OverrideAsAPair(config, username, password) ==
    IF Truthy(username)
    THEN NewUploader(config.repository, username, password)
    ELSE NewUploader(config.repository, config.username,
                     PyOr(password, config.password))

\* the values of the config taken first
C10_ConfigFirst(config, username, password) ==
    NewUploader(config.repository,
                PyOr(config.username, username),
                PyOr(config.password, password))

\* PackageUploader.from_repository_config
FromRepositoryConfig(config, username, password) ==
    NewUploader(config.repository,
                PyOr(username, config.username),
                PyOr(password, config.password))

\* from_rc_file without the except clause
C7_RcConfigUncaught(file, repository) ==
    LET parser == FromFile(file)
    IN  IF parser.kind = "raise" THEN parser
        ELSE GetRepositoryConfig(parser.value, repository)

\* from_rc_file with the lookup inside the try and a bare except
C8_RcConfigCatchesAll(file, repository) ==
    LET parser == FromFile(file)
    IN  IF parser.kind = "raise" THEN Ok(NoneConfig)
        ELSE LET config == GetRepositoryConfig(parser.value, repository)
             IN  IF config.kind = "raise" THEN Ok(NoneConfig) ELSE config

\* the config of PackageUploader.from_rc_file (lines 70-75)
RcConfig(file, repository) ==
    LET parser == FromFile(file)
    IN  IF parser.kind = "raise"
        THEN IF parser.exc.type = "ConfigFileError" THEN Ok(NoneConfig) ELSE parser
        ELSE GetRepositoryConfig(parser.value, repository)

\* from_rc_file handing the repository argument, not the config's, as the host
C11_FromRcFileKeepsAlias(file, repository, username, password) ==
    LET config == RcConfig(file, repository)
    IN  IF config.kind = "raise" THEN config
        ELSE IF ~config.value.none
        THEN Ok(NewUploader(repository,
                            PyOr(username, config.value.username),
                            PyOr(password, config.value.password)))
        ELSE Ok(NewUploader(repository, username, password))

\* from_rc_file falling back to cls(repository), the credentials left out
C12_FromRcFileDropsCredentials(file, repository, username, password) ==
    LET config == RcConfig(file, repository)
    IN  IF config.kind = "raise" THEN config
        ELSE IF ~config.value.none
        THEN Ok(FromRepositoryConfig(config.value, username, password))
        ELSE Ok(NewUploader(repository, None, None))

\* PackageUploader.from_rc_file
FromRcFile(file, repository, username, password) ==
    LET config == RcConfig(file, repository)
    IN  IF config.kind = "raise" THEN config
        ELSE IF ~config.value.none
        THEN Ok(FromRepositoryConfig(config.value, username, password))
        ELSE Ok(NewUploader(repository, username, password))

\* os.path.basename
Basename(filepath) == IF filepath = <<>> THEN "" ELSE filepath[Len(filepath)]

NoFiles == [content |-> <<"", "">>]

\* _make_request_files naming the part after the first component of the path
C23_RequestFilesWithDirname(filepath, content) ==
    [content |-> <<IF filepath = <<>> THEN "" ELSE filepath[1], content>>]

\* PackageUploader._make_request_files
MakeRequestFiles(filepath, content) == [content |-> <<Basename(filepath), content>>]

\* requests.Response.raise_for_status
ResponseRaiseForStatus(resp) ==
    IF 400 <= resp.status_code /\ resp.status_code < 500
    THEN Raise(Exc("HTTPError",
                   <<ToString(resp.status_code), " Client Error: ", resp.reason>>, resp))
    ELSE IF 500 <= resp.status_code /\ resp.status_code < 600
    THEN Raise(Exc("HTTPError",
                   <<ToString(resp.status_code), " Server Error: ", resp.reason>>, resp))
    ELSE Ok(resp)

\* the message built from the name of the file instead of the path given
C1_MessageWithBasename(filepath) ==
    <<"Package ", Basename(filepath), " already uploaded.">>

\* 'Package {0} already uploaded.'.format(filepath)
ConflictMessage(filepath) == <<"Package ">> \o filepath \o <<" already uploaded.">>

\* _raise_for_status without the closing raise: only the conflict is raised
C2_RaiseForStatusSwallows(resp, filepath) ==
    IF resp.status_code = 409
    THEN Raise(Exc("PackageConflictError", ConflictMessage(filepath), NoResponse))
    ELSE Ok(resp)

\* PackageUploader._raise_for_status
RaiseForStatus(resp, filepath) ==
    LET r == ResponseRaiseForStatus(resp)
    IN  IF r.kind = "raise" /\ r.exc.type = "HTTPError"
        THEN IF r.exc.response.status_code = 409
             THEN Raise(Exc("PackageConflictError", ConflictMessage(filepath), NoResponse))
             ELSE r
        ELSE r

-----------------------------------------------------------------------------
(* pypiuploader/download.py, PackageDownloader *)

NoPackages == [given |-> FALSE, items |-> <<>>]

\* no PackageDownloader is made yet
NoDownloader == [download_path |-> None]

\* _build_args looking at the requirements file before the list
C29_BuildArgsFileFirst(download_path, requirements, requirements_file, no_use_wheel) ==
    LET args == <<"download", "-d", download_path>>
                \o (IF no_use_wheel THEN <<"--no-binary", ":all:">> ELSE <<>>)
    IN  IF requirements_file /= None THEN Ok(args \o <<"-r", requirements_file>>)
        ELSE IF requirements.given THEN Ok(args \o requirements.items)
        ELSE Raise(Exc("ValueError",
                       <<"Either requirements or requirements_file must be given.">>,
                       NoResponse))

\* PackageDownloader._build_args
BuildArgs(download_path, requirements, requirements_file, no_use_wheel) ==
    LET args == <<"download", "-d", download_path>>
                \o (IF no_use_wheel THEN <<"--no-binary", ":all:">> ELSE <<>>)
    IN  IF requirements.given THEN Ok(args \o requirements.items)
        ELSE IF requirements_file /= None THEN Ok(args \o <<"-r", requirements_file>>)
        ELSE Raise(Exc("ValueError",
                       <<"Either requirements or requirements_file must be given.">>,
                       NoResponse))

-----------------------------------------------------------------------------
(* pypiuploader/commands.py, Command *)

NoResult == [kind |-> "none", value |-> NoResponse, exc |-> NoExc]
Returned(resp) == [kind |-> "returned", value |-> resp, exc |-> NoExc]
Failed(e) == [kind |-> "raised", value |-> NoResponse, exc |-> e]

\* _upload_file without the except clause
C4_OutcomeWithoutExcept(r) ==
    IF r.kind = "raised" THEN "propagate" ELSE "success"

\* _upload_file with a bare except
C5_OutcomeCatchesAll(r) ==
    IF r.kind = "raised" THEN "already uploaded" ELSE "success"

\* what _upload_file does with the way uploader.upload ended (lines 121-126)
UploadFileOutcome(r) ==
    IF r.kind = "raised"
    THEN IF r.exc.type = "PackageConflictError" THEN "already uploaded" ELSE "propagate"
    ELSE "success"

HeaderMessage(host) == <<"Uploading packages to ", host, "\n">>
UploadingMessage(filename) == <<"Uploading ">> \o filename \o <<"... ">>
AlreadyUploadedMessage == <<"already uploaded.\n">>
SuccessMessage == <<"success.\n">>

LogEntry(ev, i, file, detail) == [ev |-> ev, idx |-> i, file |-> file, detail |-> detail]

\* The argument lists parse_args can produce
RunIndexes == {"internal", UrlB}
RunUsernames == {None, "alice"}
RunPasswords == {None, "secret"}

FilesOptions ==
    [command : {"files"}, index : RunIndexes, username : RunUsernames,
     password : RunPasswords, files : SeqsUpTo(Paths, MaxFiles) \ { <<>> },
     packages : {NoPackages}, requirements_file : {None},
     download_dir : {None}, no_use_wheel : {FALSE}]

DownloadOptions ==
    [command : {"packages"}, index : RunIndexes, username : RunUsernames,
     password : RunPasswords, files : { <<>> },
     packages : {[given |-> TRUE, items |-> <<"mock">>]}, requirements_file : {None},
     download_dir : {None}, no_use_wheel : {FALSE}]
    \cup
    [command : {"requirements"}, index : RunIndexes, username : RunUsernames,
     password : RunPasswords, files : { <<>> },
     packages : {NoPackages}, requirements_file : {"requirements.txt"},
     download_dir : {"packages"}, no_use_wheel : {TRUE}]

\* The .pypirc files of the runs: none, the one of tests/utils.py (PYPIRC), and
\* one that declares a server without giving it a section
Pypirc ==
    [path |-> None, exists |-> TRUE, distutils |-> "ok",
     index_servers |-> <<"pypi", "", "internal", "external">>,
     sections |-> [n \in ServerNames |->
        IF n = "internal"
        THEN [present |-> TRUE, repository |-> UrlA, username |-> "bar", password |-> "foo"]
        ELSE [present |-> TRUE, repository |-> "https://foo.bar.com/",
              username |-> "baz", password |-> Missing]]]

PypircNoSection ==
    [path |-> None, exists |-> TRUE, distutils |-> "ok", index_servers |-> <<"internal">>,
     sections |-> [n \in ServerNames |-> NoSectionRec]]

RunFiles == {NoFile, Pypirc, PypircNoSection}

InitWith(opts, rcs, configs, start) ==
    /\ options \in opts
    /\ rcfile \in rcs
    /\ pc = start
    /\ uploader = NoUploader
    /\ made = 0
    /\ repo_config \in configs
    /\ filenames = <<>>
    /\ idx = 0
    /\ files = NoFiles
    /\ response = NoResponse
    /\ result = NoResult
    /\ stdout = <<>>
    /\ log = <<>>
    /\ raised = NoExc
    /\ nextId = 1
    /\ ret = <<>>
    /\ downloader = NoDownloader

Init ==
    InitWith(FilesOptions \cup DownloadOptions, RunFiles, {NoneConfig}, "make_uploader")

\* Command._make_uploader (run, line 90)
MakeUploader ==
    /\ pc = "make_uploader"
    /\ LET config == RcConfig(rcfile, options.index)
           made_ == FromRcFile(rcfile, options.index, options.username, options.password)
       IN  IF made_.kind = "raise"
           THEN /\ raised' = made_.exc
                /\ pc' = "crashed"
                /\ UNCHANGED <<uploader, made, repo_config>>
           ELSE /\ uploader' = made_.value
                /\ made' = made + 1
                /\ repo_config' = config.value
                /\ pc' = "get_filenames"
                /\ UNCHANGED raised
    /\ UNCHANGED <<downloader, ret, options, rcfile, filenames, idx, files, response, result,
                   stdout, log, nextId>>

\* Command._get_filenames, 'files' command (run, line 91)
GetFilenames ==
    /\ pc = "get_filenames"
    /\ options.command \notin {"packages", "requirements"}
    /\ filenames' = options.files
    /\ pc' = "upload_files"
    /\ UNCHANGED <<downloader, ret, options, rcfile, uploader, made, repo_config, idx, files,
                   response, result, stdout, log, raised, nextId>>

\* run with the download started before the uploader is made
C26_DownloadBeforeUploader ==
    /\ pc = "make_uploader"
    /\ log = <<>>
    /\ options.command \in {"packages", "requirements"}
    /\ LET download_path == IF options.download_dir = None THEN "mkdtemp"
                            ELSE options.download_dir
           args == BuildArgs(download_path, options.packages,
                             options.requirements_file, options.no_use_wheel)
       IN  /\ args.kind /= "raise"
           /\ log' = Append(log, LogEntry("pip", 0, <<>>, args.value))
           /\ \E listed \in SeqsUpTo(Paths, MaxFiles) : filenames' = listed
           /\ pc' = "make_uploader"
           /\ UNCHANGED raised
    /\ UNCHANGED <<downloader, ret, options, rcfile, uploader, made, repo_config, idx, files,
                   response, result, stdout, nextId>>

\* Command._get_filenames -> Command._download -> PackageDownloader.download
Download ==
    /\ pc = "get_filenames"
    /\ options.command \in {"packages", "requirements"}
    /\ LET download_path == IF options.download_dir = None THEN "mkdtemp"
                            ELSE options.download_dir
           args == BuildArgs(download_path, options.packages,
                             options.requirements_file, options.no_use_wheel)
       IN  IF args.kind = "raise"
           THEN /\ raised' = args.exc
                /\ pc' = "crashed"
                /\ UNCHANGED <<filenames, log>>
           ELSE /\ log' = Append(log, LogEntry("pip", 0, <<>>, args.value))
                /\ \E listed \in SeqsUpTo(Paths, MaxFiles) : filenames' = listed
                /\ pc' = "upload_files"
                /\ UNCHANGED raised
    /\ UNCHANGED <<downloader, ret, options, rcfile, uploader, made, repo_config, idx, files,
                   response, result, stdout, nextId>>

\* _upload_files writing its header only when there is something to upload
C27_PrintHeaderUnlessEmpty ==
    /\ pc = "upload_files"
    /\ IF filenames = <<>>
       THEN UNCHANGED <<stdout, log>>
       ELSE /\ stdout' = Append(stdout, HeaderMessage(uploader.host))
            /\ log' = Append(log, LogEntry("write", 0, <<>>, HeaderMessage(uploader.host)))
    /\ idx' = 1
    /\ pc' = "loop"
    /\ UNCHANGED <<downloader, ret, options, rcfile, uploader, made, repo_config, filenames, files,
                   response, result, raised, nextId>>

\* Command._upload_files, line 115
PrintHeader ==
    /\ pc = "upload_files"
    /\ stdout' = Append(stdout, HeaderMessage(uploader.host))
    /\ log' = Append(log, LogEntry("write", 0, <<>>, HeaderMessage(uploader.host)))
    /\ idx' = 1
    /\ pc' = "loop"
    /\ UNCHANGED <<downloader, ret, options, rcfile, uploader, made, repo_config, filenames, files,
                   response, result, raised, nextId>>

\* Command._upload_files, lines 116-117: the list is exhausted
LoopEnd ==
    /\ pc = "loop"
    /\ idx > Len(filenames)
    /\ pc' = "done"
    /\ UNCHANGED <<downloader, ret, options, rcfile, uploader, made, repo_config, filenames, idx,
                   files, response, result, stdout, log, raised, nextId>>

\* the list iterated from its end
C6_CurrentFileReversed == filenames[Len(filenames) + 1 - idx]

\* Command._upload_files, line 116: the filename of the idx-th iteration
CurrentFile == filenames[idx]

\* Command._upload_file, line 120, and the entry into uploader.upload
UploadFileBegin ==
    /\ pc = "loop"
    /\ idx <= Len(filenames)
    /\ stdout' = Append(stdout, UploadingMessage(CurrentFile))
    /\ log' = Append(log, LogEntry("write", idx, CurrentFile, UploadingMessage(CurrentFile)))
    /\ files' = NoFiles
    /\ response' = NoResponse
    /\ result' = NoResult
    /\ pc' = "read"
    /\ UNCHANGED <<downloader, ret, options, rcfile, uploader, made, repo_config, filenames, idx,
                   raised, nextId>>

\* PackageUploader.upload, line 136: _make_request_files reads the file
ReadFile ==
    /\ pc = "read"
    /\ \E content \in Contents :
          /\ files' = MakeRequestFiles(CurrentFile, content)
          /\ log' = Append(log, LogEntry("read", idx, CurrentFile, content))
    /\ pc' = "post"
    /\ UNCHANGED <<downloader, ret, options, rcfile, uploader, made, repo_config, filenames, idx,
                   response, result, stdout, raised, nextId>>

\* a failed read taken as an empty file, the request sent all the same
C28_ReadFailureSendsEmpty ==
    /\ pc = "read"
    /\ files' = MakeRequestFiles(CurrentFile, "")
    /\ log' = Append(log, LogEntry("open failed", idx, CurrentFile, ""))
    /\ pc' = "post"
    /\ UNCHANGED <<downloader, ret, options, rcfile, uploader, made, repo_config, filenames, idx,
                   response, result, stdout, raised, nextId>>

\* PackageUploader._read_file: open() fails
ReadFileFails ==
    /\ pc = "read"
    /\ result' = Failed(Exc("IOError", CurrentFile, NoResponse))
    /\ log' = Append(log, LogEntry("open failed", idx, CurrentFile, ""))
    /\ pc' = "report"
    /\ UNCHANGED <<downloader, ret, options, rcfile, uploader, made, repo_config, filenames, idx,
                   files, response, stdout, raised, nextId>>

\* the call of line 137: session.post(self.host, data=self._data, files=files)
Request == [host |-> uploader.host, data |-> uploader.data, files |-> files,
            auth |-> uploader.auth]

\* a POST after which the uploader has forgotten its credentials
C25_PostDropsCredentials ==
    /\ pc = "post"
    /\ \E answer \in ServerAnswers :
          response' = [id |-> nextId, status_code |-> answer[1], reason |-> answer[2]]
    /\ nextId' = nextId + 1
    /\ log' = Append(log, LogEntry("post", idx, CurrentFile, Request))
    /\ uploader' = [uploader EXCEPT !.username = None, !.password = None, !.auth = <<>>]
    /\ pc' = "status"
    /\ UNCHANGED <<downloader, ret, options, rcfile, made, repo_config, filenames, idx,
                   files, result, stdout, raised>>

\* PackageUploader.upload, line 137: the server answers
Post ==
    /\ pc = "post"
    /\ \E answer \in ServerAnswers :
          response' = [id |-> nextId, status_code |-> answer[1], reason |-> answer[2]]
    /\ nextId' = nextId + 1
    /\ log' = Append(log, LogEntry("post", idx, CurrentFile, Request))
    /\ pc' = "status"
    /\ UNCHANGED <<downloader, ret, options, rcfile, uploader, made, repo_config, filenames, idx,
                   files, result, stdout, raised>>

\* PackageUploader.upload, line 137: the transport fails
PostFails ==
    /\ pc = "post"
    /\ result' = Failed(Exc("ConnectionError", <<>>, NoResponse))
    /\ log' = Append(log, LogEntry("post", idx, CurrentFile, Request))
    /\ pc' = "report"
    /\ UNCHANGED <<downloader, ret, options, rcfile, uploader, made, repo_config, filenames, idx,
                   files, response, stdout, raised, nextId>>

\* upload without its return statement
C3_UploadEndReturnsNone(resp, filepath) ==
    LET r == RaiseForStatus(resp, filepath)
    IN  IF r.kind = "raise" THEN Failed(r.exc) ELSE Returned(NoResponse)

\* PackageUploader.upload, lines 138-139
UploadEnd(resp, filepath) ==
    LET r == RaiseForStatus(resp, filepath)
    IN  IF r.kind = "raise" THEN Failed(r.exc) ELSE Returned(resp)

CheckStatus ==
    /\ pc = "status"
    /\ result' = UploadEnd(response, CurrentFile)
    /\ log' = Append(log, LogEntry("status", idx, CurrentFile, response))
    /\ pc' = "report"
    /\ UNCHANGED <<downloader, ret, options, rcfile, uploader, made, repo_config, filenames, idx,
                   files, response, stdout, raised, nextId>>

\* Command._upload_file, lines 125-126: the upload returned
ReportSuccess ==
    /\ pc = "report"
    /\ UploadFileOutcome(result) = "success"
    /\ stdout' = Append(stdout, SuccessMessage)
    /\ log' = Append(log, LogEntry("write", idx, CurrentFile, SuccessMessage))
    /\ idx' = idx + 1
    /\ pc' = "loop"
    /\ UNCHANGED <<downloader, ret, options, rcfile, uploader, made, repo_config, filenames, files,
                   response, result, raised, nextId>>

\* the except clause sending the loop back to the same file
C21_ReportConflictRetries ==
    /\ pc = "report"
    /\ UploadFileOutcome(result) = "already uploaded"
    /\ stdout' = Append(stdout, AlreadyUploadedMessage)
    /\ log' = Append(log, LogEntry("write", idx, CurrentFile, AlreadyUploadedMessage))
    /\ idx' = idx
    /\ pc' = "loop"
    /\ UNCHANGED <<downloader, ret, options, rcfile, uploader, made, repo_config, filenames, files,
                   response, result, raised, nextId>>

\* Command._upload_file, lines 123-124: PackageConflictError is caught
ReportConflict ==
    /\ pc = "report"
    /\ UploadFileOutcome(result) = "already uploaded"
    /\ stdout' = Append(stdout, AlreadyUploadedMessage)
    /\ log' = Append(log, LogEntry("write", idx, CurrentFile, AlreadyUploadedMessage))
    /\ idx' = idx + 1
    /\ pc' = "loop"
    /\ UNCHANGED <<downloader, ret, options, rcfile, uploader, made, repo_config, filenames, files,
                   response, result, raised, nextId>>

\* Command._upload_file: any other exception leaves _upload_file, run and main
Propagate ==
    /\ pc = "report"
    /\ UploadFileOutcome(result) = "propagate"
    /\ raised' = result.exc
    /\ pc' = "crashed"
    /\ UNCHANGED <<downloader, ret, options, rcfile, uploader, made, repo_config, filenames, idx,
                   files, response, result, stdout, log, nextId>>

Next ==
    \/ MakeUploader
    \/ GetFilenames
    \/ Download
    \/ PrintHeader
    \/ LoopEnd
    \/ UploadFileBegin
    \/ ReadFile
    \/ ReadFileFails
    \/ Post
    \/ PostFails
    \/ CheckStatus
    \/ ReportSuccess
    \/ ReportConflict
    \/ Propagate

Spec == Init /\ [][Next]_vars

-----------------------------------------------------------------------------
(* The constructors of PackageUploader called on their own, as the tests   *)
(* of tests/test_upload.py call them: options holds the arguments          *)
(* (index is the repository argument), rcfile is the file at config_path,  *)
(* repo_config the dictionary given to from_repository_config.             *)

CallArguments ==
    [command : {"files"}, index : Identifiers, username : ExplicitUsernames,
     password : ExplicitPasswords, files : { <<>> },
     packages : {NoPackages}, requirements_file : {None},
     download_dir : {None}, no_use_wheel : {FALSE}]

ArgumentConfigs ==
    [none : {FALSE}, repository : {UrlA, UrlB}, username : {None, "bar"},
     password : {None, "foo"}]

InitRC ==
    \/ InitWith(CallArguments, Docs \cup {NoFile}, {NoneConfig}, "from_rc_file")
    \/ InitWith(CallArguments, {NoFile}, ArgumentConfigs, "from_repository_config")

\* PackageUploader.from_rc_file(repository, username, password, config_path)
CallFromRcFile ==
    /\ pc = "from_rc_file"
    /\ LET config == RcConfig(rcfile, options.index)
           made_ == FromRcFile(rcfile, options.index, options.username, options.password)
       IN  IF made_.kind = "raise"
           THEN /\ raised' = made_.exc
                /\ pc' = "from_rc_file raised"
                /\ UNCHANGED <<uploader, made, repo_config>>
           ELSE /\ uploader' = made_.value
                /\ made' = made + 1
                /\ repo_config' = config.value
                /\ pc' = "from_rc_file returned"
                /\ UNCHANGED raised
    /\ UNCHANGED <<downloader, ret, options, rcfile, filenames, idx, files, response, result,
                   stdout, log, nextId>>

\* PackageUploader.from_repository_config(repo_config, username, password)
CallFromRepositoryConfig ==
    /\ pc = "from_repository_config"
    /\ uploader' = FromRepositoryConfig(repo_config, options.username, options.password)
    /\ made' = made + 1
    /\ pc' = "from_repository_config returned"
    /\ UNCHANGED <<downloader, ret, options, rcfile, repo_config, filenames, idx, files, response,
                   result, stdout, log, raised, nextId>>

NextRC ==
    \/ CallFromRcFile
    \/ CallFromRepositoryConfig

SpecRC == InitRC /\ [][NextRC]_vars

-----------------------------------------------------------------------------
(* Properties of PackageUploader.upload and of the batch, under Spec *)

\* the upload of filenames[idx] has ended and _upload_file is about to act on it
UploadEnded == pc = "report"

\* number of log entries of kind ev made for the idx-th file
CountLog(ev, i) == Cardinality({ k \in 1..Len(log) : log[k].ev = ev /\ log[k].idx = i })

\* C1: whenever the response to upload(filepath) has status 409, upload raises
\* PackageConflictError, not an HTTP error, and its message is
\* 'Package {filepath} already uploaded.' with every component of the path given.
C1_ConflictRaisesWithFullPath ==
    (UploadEnded /\ response.status_code = 409) =>
        /\ result.kind = "raised"
        /\ result.exc.type = "PackageConflictError"
        /\ result.exc.message
             = <<"Package ">> \o filenames[idx] \o <<" already uploaded.">>

C1_Witness ==
    /\ UploadEnded
    /\ response.status_code = 409
    /\ filenames[idx] = <<"packages", "b.tar.gz">>
    /\ result.exc.message = <<"Package ", "packages", "b.tar.gz", " already uploaded.">>

\* C2 as claimed: every response whose status is neither 2xx nor 409 makes upload
\* raise an HTTP error that keeps the status code and the reason of the response.
C2_Original ==
    (/\ UploadEnded
     /\ response.id /= 0
     /\ ~(200 <= response.status_code /\ response.status_code <= 299)
     /\ response.status_code /= 409) =>
        /\ result.kind = "raised"
        /\ result.exc.type = "HTTPError"
        /\ result.exc.response.status_code = response.status_code
        /\ result.exc.response.reason = response.reason

\* C2, amended: every response whose status is an HTTP error status (400 to 599)
\* other than 409 makes upload raise an HTTP error that keeps the status code and
\* the reason of the response; upload returns no response then.
C2_ErrorStatusRaisesHTTPError ==
    (/\ UploadEnded
     /\ 400 <= response.status_code /\ response.status_code <= 599
     /\ response.status_code /= 409) =>
        /\ result.kind = "raised"
        /\ result.value = NoResponse
        /\ result.exc.type = "HTTPError"
        /\ result.exc.response.status_code = response.status_code
        /\ result.exc.response.reason = response.reason

C2_Witness ==
    /\ UploadEnded
    /\ response.status_code = 401
    /\ response.reason = "Foo bar"
    /\ result.exc.type = "HTTPError"
    /\ result.exc.response.reason = "Foo bar"

\* C3: whenever the response has a 2xx status, upload returns, what it returns is
\* the response object the POST gave, and the call has read the file exactly once
\* and posted exactly once.
C3_SuccessReturnsTheResponse ==
    (/\ UploadEnded
     /\ 200 <= response.status_code /\ response.status_code <= 299) =>
        /\ result.kind = "returned"
        /\ result.exc = NoExc
        /\ result.value.id = response.id
        /\ result.value = response
        /\ CountLog("read", idx) = 1
        /\ CountLog("open failed", idx) = 0
        /\ CountLog("post", idx) = 1

C3_Witness ==
    /\ UploadEnded
    /\ idx = 2
    /\ response.status_code = 201
    /\ result.kind = "returned"
    /\ result.value.id = 2

\* PackageConflictError left the upload of the idx-th file
ConflictRaised ==
    UploadEnded /\ result.kind = "raised" /\ result.exc.type = "PackageConflictError"

\* another exception left the upload of the idx-th file
FatalRaised ==
    UploadEnded /\ result.kind = "raised" /\ result.exc.type /= "PackageConflictError"

\* C4: when the upload of a file raises PackageConflictError, the step that follows
\* writes 'already uploaded.' and moves on to the next file with no exception
\* leaving the batch; and whenever the loop stands before a file of the list, the
\* step that follows is the attempt of that file.
C4_ConflictContinuesTheBatch ==
    [][ /\ ConflictRaised =>
            /\ stdout' = Append(stdout, <<"already uploaded.\n">>)
            /\ idx' = idx + 1
            /\ pc' = "loop"
            /\ raised' = NoExc
            /\ filenames' = filenames
        /\ (pc = "loop" /\ idx <= Len(filenames)) =>
            /\ pc' = "read"
            /\ idx' = idx
            /\ stdout' = Append(stdout, <<"Uploading ">> \o filenames[idx] \o <<"... ">>)
      ]_vars

\* the first file conflicted, and the second one is being read
C4_Witness ==
    /\ pc = "read"
    /\ idx = 2
    /\ Len(stdout) = 4
    /\ stdout[3] = <<"already uploaded.\n">>
    /\ \E k \in 1..Len(log) :
          log[k].ev = "status" /\ log[k].idx = 1 /\ log[k].detail.status_code = 409

\* C5: when the upload of a file ends with any exception other than
\* PackageConflictError, the step that follows lets it leave the batch, writing
\* nothing and doing no I/O; and nothing at all follows once it has left: no
\* later file is read or posted.
C5_FatalErrorAbortsTheBatch ==
    [][ /\ pc /= "crashed"
        /\ FatalRaised =>
            /\ pc' = "crashed"
            /\ raised' = result.exc
            /\ stdout' = stdout
            /\ log' = log
            /\ idx' = idx
      ]_vars

\* an HTTP error on the first of two files: the second one is never attempted
C5_Witness ==
    /\ pc = "crashed"
    /\ raised.type = "HTTPError"
    /\ idx = 1
    /\ Len(filenames) = 2
    /\ \A k \in 1..Len(log) : log[k].idx <= 1

\* the written messages that close the upload of a file
OutcomeMessages == { <<"success.\n">>, <<"already uploaded.\n">> }

IsOutcomeWrite(e) == e.ev = "write" /\ e.idx >= 1 /\ e.detail \in OutcomeMessages

IsUploadingWrite(e) ==
    e.ev = "write" /\ e.idx >= 1 /\ e.detail = <<"Uploading ">> \o e.file \o <<"... ">>

\* e2 may directly follow e1 in a sequential run
Follows(e1, e2) ==
    IF e2.idx = e1.idx /\ e1.idx >= 1
    THEN \/ IsUploadingWrite(e1) /\ e2.ev \in {"read", "open failed"}
         \/ e1.ev = "read" /\ e2.ev = "post"
         \/ e1.ev = "post" /\ e2.ev = "status"
         \/ e1.ev = "status" /\ IsOutcomeWrite(e2)
    ELSE IF e1.idx = 0
    THEN \/ e1.ev = "pip" /\ e2.ev = "write" /\ e2.idx = 0
         \/ e1.ev = "write" /\ e2.idx = 1 /\ IsUploadingWrite(e2)
    ELSE /\ e2.idx = e1.idx + 1
         /\ IsOutcomeWrite(e1)
         /\ IsUploadingWrite(e2)

\* the status codes the server answered, in the order of the answers
RECURSIVE StatusesOf(_)
StatusesOf(l) ==
    IF l = <<>> THEN <<>>
    ELSE IF Head(l).ev = "status"
    THEN <<Head(l).detail.status_code>> \o StatusesOf(Tail(l))
    ELSE StatusesOf(Tail(l))

\* C6: the I/O of a batch is sequential and in the order of the list: every entry
\* made for the i-th iteration is about the i-th file of the list, an iteration
\* goes write, read, post, status, write, and the first entry of iteration i+1
\* directly follows the written outcome of iteration i. With two files answered
\* 409 then 200 the output is the header, 'already uploaded' for the first file
\* and 'success' for the second.
C6_SequentialInListOrder ==
    /\ \A k \in 1..Len(log) :
          log[k].idx >= 1 =>
              /\ log[k].idx <= Len(filenames)
              /\ log[k].file = filenames[log[k].idx]
    /\ \A k \in 1..(Len(log) - 1) : Follows(log[k], log[k + 1])
    /\ (pc = "done" /\ Len(filenames) = 2 /\ StatusesOf(log) = <<409, 200>>) =>
          stdout = << <<"Uploading packages to ", uploader.host, "\n">>,
                      <<"Uploading ">> \o filenames[1] \o <<"... ">>,
                      <<"already uploaded.\n">>,
                      <<"Uploading ">> \o filenames[2] \o <<"... ">>,
                      <<"success.\n">> >>

C6_Witness ==
    /\ pc = "done"
    /\ filenames = << <<"packages", "b.tar.gz">>, <<"a.tar.gz">> >>
    /\ StatusesOf(log) = <<409, 200>>
    /\ stdout[3] = <<"already uploaded.\n">>
    /\ stdout[5] = <<"success.\n">>

-----------------------------------------------------------------------------
(* Properties of the construction of the uploader, under SpecRC *)

FromRcFileEnded == pc \in {"from_rc_file returned", "from_rc_file raised"}

\* the uploader was built from a RepositoryConfig
BuiltFromConfig ==
    /\ pc \in {"from_rc_file returned", "from_repository_config returned"}
    /\ ~repo_config.none

\* C7: from_rc_file on a config path whose file does not exist never ends with
\* ConfigFileError: it returns an uploader whose host is the identifier given and
\* whose username and password are the arguments given, absent ones included.
C7_MissingFileFallsBack ==
    (FromRcFileEnded /\ ~rcfile.exists) =>
        /\ pc = "from_rc_file returned"
        /\ raised = NoExc
        /\ made = 1
        /\ uploader.host = options.index
        /\ uploader.username = options.username
        /\ uploader.password = options.password

C7_Witness ==
    /\ pc = "from_rc_file returned"
    /\ ~rcfile.exists
    /\ options.index = "internal"
    /\ options.username = None
    /\ options.password = "secret"
    /\ uploader.host = "internal"

SectionOf(name) == rcfile.sections[name]

HasRepository(name) ==
    name \in ServerNames /\ SectionOf(name).present /\ SectionOf(name).repository /= Missing

HasUsername(name) ==
    name \in ServerNames /\ SectionOf(name).present /\ SectionOf(name).username /= Missing

\* the file exists and resolving options.index meets a missing section or key:
\* distutils has no index-servers; or the identifier is a declared name whose
\* section, repository or username is missing; or it is no declared name and
\* the scan of the declared servers reaches, before any server whose repository
\* is the identifier, one without section or repository, or reaches a server
\* whose repository is the identifier and that has no username.
RequiredMissing ==
    LET names == DeclaredNames(rcfile.index_servers)
        R == options.index
    IN  /\ rcfile.exists
        /\ \/ rcfile.distutils = "noopt"
           \/ /\ rcfile.distutils = "ok"
              /\ IF \E i \in 1..Len(names) : names[i] = R
                 THEN ~HasRepository(R) \/ ~HasUsername(R)
                 ELSE \E i \in 1..Len(names) :
                        /\ \A j \in 1..(i - 1) :
                              HasRepository(names[j]) /\ SectionOf(names[j]).repository /= R
                        /\ \/ ~HasRepository(names[i])
                           \/ SectionOf(names[i]).repository = R /\ ~HasUsername(names[i])

C9_OverridePerField ==
    BuiltFromConfig =>
        /\ uploader.host = repo_config.repository
        /\ (Truthy(options.username) /\ ~Truthy(options.password)) =>
              /\ uploader.username = options.username
              /\ uploader.password = repo_config.password
        /\ (Truthy(options.password) /\ ~Truthy(options.username)) =>
              /\ uploader.password = options.password
              /\ uploader.username = repo_config.username

C9_Witness ==
    /\ BuiltFromConfig
    /\ options.username = "alice"
    /\ options.password = None
    /\ repo_config.username = "bar"
    /\ repo_config.password = "foo"
    /\ uploader.username = "alice"
    /\ uploader.password = "foo"

\* C10 as claimed: every explicit username (password) that is not absent is the
\* username (password) of the uploader built from a RepositoryConfig.
C10_Original ==
    BuiltFromConfig =>
        /\ options.username /= None => uploader.username = options.username
        /\ options.password /= None => uploader.password = options.password

\* C10, amended: every explicit username (password) that is neither absent nor
\* the empty string is the username (password) of the uploader built from a
\* RepositoryConfig, whatever the config holds.
C10_NonEmptyExplicitWins ==
    BuiltFromConfig =>
        /\ Truthy(options.username) => uploader.username = options.username
        /\ Truthy(options.password) => uploader.password = options.password

C10_Witness ==
    /\ BuiltFromConfig
    /\ options.username = "alice"
    /\ options.password = "secret"
    /\ repo_config.username = "bar"
    /\ repo_config.password = "foo"
    /\ uploader.username = "alice"
    /\ uploader.password = "secret"

-----------------------------------------------------------------------------
(* The methods of RCParser called on their own, as the tests of            *)
(* tests/test_pypirc.py call them: rcfile is the file given to from_file   *)
(* or parsed into the parser, options.index the server or repository       *)
(* argument.                                                               *)

\* the lines of an index-servers value: names, 'pypi' and blank lines
IndexServerEntries == SeqsUpTo({"pypi", "", "internal", "external"}, MaxEntries)

ParserFiles ==
    { NoFile, [NoFile EXCEPT !.path = "/tmp/pypirc"], Pypirc, PypircNoSection }
    \cup
    [path : {"/tmp/pypirc"}, exists : {TRUE}, distutils : {"absent", "noopt"},
     index_servers : { <<>> }, sections : [ServerNames -> Sections]]
    \cup
    [path : {"/tmp/pypirc"}, exists : {TRUE}, distutils : {"ok"},
     index_servers : IndexServerEntries, sections : [ServerNames -> Sections]]

ParserArguments ==
    [command : {"files"}, index : {"internal", "external", UrlA, UrlB},
     username : {None}, password : {None}, files : { <<>> },
     packages : {NoPackages}, requirements_file : {None},
     download_dir : {None}, no_use_wheel : {FALSE}]

InitParser == InitWith(ParserArguments, ParserFiles, {NoneConfig}, "parser")

\* the end of a call: r is what the method gave
ParserCallEnds(r, returned, failed) ==
    /\ IF r.kind = "raise"
       THEN /\ raised' = r.exc
            /\ pc' = failed
            /\ UNCHANGED ret
       ELSE /\ ret' = r.value
            /\ pc' = returned
            /\ UNCHANGED raised
    /\ UNCHANGED <<downloader, options, rcfile, uploader, made, repo_config, filenames, idx,
                   files, response, result, stdout, log, nextId>>

\* RCParser.from_file(path)
CallFromFile ==
    /\ pc = "parser"
    /\ ParserCallEnds(FromFile(rcfile), "from_file returned", "from_file raised")

\* RCParser(config)._read_index_servers()
CallReadIndexServers ==
    /\ pc = "parser"
    /\ rcfile.exists
    /\ ParserCallEnds(ReadIndexServers(rcfile),
                      "_read_index_servers returned", "_read_index_servers raised")

\* RCParser(config)._read_server_auth(server)
CallReadServerAuth ==
    /\ pc = "parser"
    /\ rcfile.exists
    /\ ParserCallEnds(ReadServerAuth(rcfile, options.index),
                      "_read_server_auth returned", "_read_server_auth raised")

\* RCParser(config).get_repository_config(repository)
CallGetRepositoryConfig ==
    /\ pc = "parser"
    /\ rcfile.exists
    /\ ParserCallEnds(GetRepositoryConfig(rcfile, options.index),
                      "get_repository_config returned", "get_repository_config raised")

NextParser ==
    \/ CallFromFile
    \/ CallReadIndexServers
    \/ CallReadServerAuth
    \/ CallGetRepositoryConfig

SpecParser == InitParser /\ [][NextParser]_vars

-----------------------------------------------------------------------------
(* What resolving options.index against rcfile has to find, read off the   *)
(* file itself                                                             *)

\* the declared servers of rcfile, in the order of their declaration
Declared ==
    IF rcfile.exists /\ rcfile.distutils = "ok"
    THEN DeclaredNames(rcfile.index_servers) ELSE <<>>

IsDeclared(name) == \E i \in 1..Len(Declared) : Declared[i] = name

\* the dictionary made of the keys of the section of a declared server
ConfigOfSection(name) ==
    [none |-> FALSE,
     repository |-> SectionOf(name).repository,
     username |-> SectionOf(name).username,
     password |-> IF SectionOf(name).password = Missing THEN None
                  ELSE SectionOf(name).password]

\* the identifier is a declared name whose section has repository and username
ResolvedByName ==
    /\ IsDeclared(options.index)
    /\ HasRepository(options.index)
    /\ HasUsername(options.index)

\* the identifier is no declared name, the i-th declared server is the first whose
\* repository is the identifier, every server before it has a repository, and the
\* i-th has a username
ResolvedByRepositoryAt(i) ==
    /\ ~IsDeclared(options.index)
    /\ i \in 1..Len(Declared)
    /\ \A j \in 1..(i - 1) :
          HasRepository(Declared[j]) /\ SectionOf(Declared[j]).repository /= options.index
    /\ HasRepository(Declared[i])
    /\ SectionOf(Declared[i]).repository = options.index
    /\ HasUsername(Declared[i])

\* the identifier is no declared name and no repository value of a declared server
MatchesNothing ==
    /\ ~IsDeclared(options.index)
    /\ \A i \in 1..Len(Declared) :
          ~(HasRepository(Declared[i])
            /\ SectionOf(Declared[i]).repository = options.index)

\* index-servers is there when distutils is, and every declared server has a
\* section with a repository key
DeclarationsComplete ==
    /\ rcfile.distutils /= "noopt"
    /\ \A i \in 1..Len(Declared) : HasRepository(Declared[i])

NoExplicitCredentials == options.username = None /\ options.password = None

HasCredentialsOf(u, config) ==
    /\ u.host = config.repository
    /\ u.username = config.username
    /\ u.password = config.password

\* C11: when the file exists, the identifier resolves to the section of a
\* declared server (by its name, or else by its repository value) and no explicit
\* username and password are given, from_rc_file returns an uploader whose host is
\* the repository value of that section and whose username and password are the
\* section's; 'internal' declared with http://127.0.0.1:8000, bar, foo gives
\* ('http://127.0.0.1:8000', 'bar', 'foo').
C11_ResolvedConfigIsUsed ==
    (FromRcFileEnded /\ rcfile.exists /\ NoExplicitCredentials) =>
        /\ ResolvedByName =>
              /\ pc = "from_rc_file returned"
              /\ HasCredentialsOf(uploader, ConfigOfSection(options.index))
        /\ \A i \in 1..Len(Declared) : ResolvedByRepositoryAt(i) =>
              /\ pc = "from_rc_file returned"
              /\ HasCredentialsOf(uploader, ConfigOfSection(Declared[i]))
        /\ (/\ options.index = "internal"
            /\ IsDeclared("internal")
            /\ SectionOf("internal") = [present |-> TRUE, repository |-> UrlA,
                                        username |-> "bar", password |-> "foo"]) =>
              /\ uploader.host = "http://127.0.0.1:8000"
              /\ uploader.username = "bar"
              /\ uploader.password = "foo"

C11_Witness ==
    /\ pc = "from_rc_file returned"
    /\ rcfile.exists
    /\ NoExplicitCredentials
    /\ options.index = "internal"
    /\ rcfile.index_servers = <<"external", "internal">>
    /\ SectionOf("internal") = [present |-> TRUE, repository |-> UrlA,
                                username |-> "bar", password |-> "foo"]
    /\ uploader.host = "http://127.0.0.1:8000"
    /\ uploader.username = "bar"
    /\ uploader.password = "foo"

GetRepositoryConfigEnded ==
    pc \in {"get_repository_config returned", "get_repository_config raised"}

MatchesSomeRepository ==
    \E i \in 1..Len(Declared) :
        HasRepository(Declared[i]) /\ SectionOf(Declared[i]).repository = options.index

C15_Original ==
    (GetRepositoryConfigEnded /\ MatchesNothing) =>
        /\ pc = "get_repository_config returned"
        /\ ret = NoneConfig

\* C15, amended: when the declarations are complete (index-servers is there when
\* distutils is, every declared server has a section with a repository key) and
\* the identifier is no declared name and no declared server's repository value,
\* get_repository_config returns None; so a name that is not declared is not
\* looked up as a section even if the file has a section of that name, and with no
\* distutils section every identifier gives None.
C15_NoMatchIsNone ==
    GetRepositoryConfigEnded =>
        /\ (MatchesNothing /\ DeclarationsComplete) =>
              /\ pc = "get_repository_config returned"
              /\ ret = NoneConfig
        /\ rcfile.distutils = "absent" =>
              /\ pc = "get_repository_config returned"
              /\ ret = NoneConfig
        /\ (pc = "get_repository_config returned" /\ ret /= NoneConfig) =>
              \E i \in 1..Len(Declared) : ret = ConfigOfSection(Declared[i])

C15_Witness ==
    /\ pc = "get_repository_config returned"
    /\ options.index = "external"
    /\ Declared = <<"internal">>
    /\ HasRepository("internal")
    /\ SectionOf("external") = [present |-> TRUE, repository |-> UrlA,
                                username |-> "bar", password |-> "foo"]
    /\ ret = NoneConfig

ReadIndexServersEnded ==
    pc \in {"_read_index_servers returned", "_read_index_servers raised"}

\* C16: _read_index_servers returns the empty sequence, raising nothing, when the
\* file has no distutils section, and raises NoOptionError when the distutils
\* section is there without an index-servers entry.
C16_DistutilsAbsentOrWithoutEntry ==
    ReadIndexServersEnded =>
        /\ rcfile.distutils = "absent" =>
              /\ pc = "_read_index_servers returned"
              /\ ret = <<>>
              /\ raised = NoExc
        /\ rcfile.distutils = "noopt" =>
              /\ pc = "_read_index_servers raised"
              /\ raised.type = "NoOptionError"
              /\ raised.message = <<"index-servers", "distutils">>

C16_Witness ==
    /\ pc = "_read_index_servers returned"
    /\ rcfile.distutils = "absent"
    /\ HasRepository("internal")
    /\ HasRepository("external")
    /\ ret = <<>>

\* C17 as claimed: _read_index_servers returns every non-blank entry of
\* index-servers, in the order of declaration.
C17_Original ==
    (pc = "_read_index_servers returned" /\ rcfile.distutils = "ok") =>
        ret = SelectSeq(rcfile.index_servers, LAMBDA e : e /= "")

\* C17, amended: _read_index_servers returns, in the order of declaration, every
\* entry of index-servers that is neither blank nor 'pypi'; the entries of the
\* tests' file (pypi, a blank line, internal, external) give internal, external.
C17_NonBlankNonPypiInOrder ==
    (ReadIndexServersEnded /\ rcfile.distutils = "ok") =>
        /\ pc = "_read_index_servers returned"
        /\ ret = SelectSeq(rcfile.index_servers, LAMBDA e : e /= "" /\ e /= "pypi")
        /\ rcfile.index_servers = <<"pypi", "", "internal", "external">> =>
              ret = <<"internal", "external">>

C17_Witness ==
    /\ pc = "_read_index_servers returned"
    /\ rcfile.index_servers = <<"pypi", "", "internal", "external">>
    /\ ret = <<"internal", "external">>

ReadServerAuthEnded ==
    pc \in {"_read_server_auth returned", "_read_server_auth raised"}

\* C18: _read_server_auth(server) returns (username, password) of the section
\* named server, the password None when the section has no password key; it raises
\* NoSectionError when there is no such section and NoOptionError when the section
\* has no username key.
C18_UsernameRequiredPasswordOptional ==
    ReadServerAuthEnded =>
        LET server == options.index
            exists == server \in ServerNames /\ SectionOf(server).present
        IN  /\ (exists /\ SectionOf(server).username /= Missing) =>
                  /\ pc = "_read_server_auth returned"
                  /\ ret[1] = SectionOf(server).username
                  /\ ret[2] = IF SectionOf(server).password = Missing THEN None
                              ELSE SectionOf(server).password
            /\ ~exists =>
                  /\ pc = "_read_server_auth raised"
                  /\ raised.type = "NoSectionError"
            /\ (exists /\ SectionOf(server).username = Missing) =>
                  /\ pc = "_read_server_auth raised"
                  /\ raised.type = "NoOptionError"
                  /\ raised.message = <<"username", server>>

C18_Witness ==
    /\ pc = "_read_server_auth returned"
    /\ options.index = "external"
    /\ SectionOf("external").username = "bar"
    /\ SectionOf("external").password = Missing
    /\ ret = <<"bar", None>>

\* the value of a key of a section, None when the section has no such key
KeyOrNone(name, key) ==
    IF SectionOf(name)[key] = Missing THEN None ELSE SectionOf(name)[key]

FromFileEnded == pc \in {"from_file returned", "from_file raised"}

\* C20: from_file raises ConfigFileError, its message holding the path, whenever
\* there is no file at the path; when there is one it returns the parsed document
\* as it is, whatever its sections hold or lack.
C20_MissingFileRaisesElseUnvalidated ==
    FromFileEnded =>
        /\ ~rcfile.exists =>
              /\ pc = "from_file raised"
              /\ raised.type = "ConfigFileError"
              /\ \E i \in 1..Len(raised.message) :
                    raised.message[i] = IF rcfile.path = None THEN ConfigPath
                                        ELSE rcfile.path
        /\ rcfile.exists =>
              /\ pc = "from_file returned"
              /\ raised = NoExc
              /\ ret = rcfile

C20_Witness ==
    /\ pc = "from_file returned"
    /\ rcfile.exists
    /\ rcfile.distutils = "ok"
    /\ Declared = <<"internal", "external">>
    /\ ~SectionOf("internal").present
    /\ SectionOf("external").present
    /\ SectionOf("external").repository = Missing
    /\ ret = rcfile

\* C24: the list _read_index_servers returns never holds the name 'pypi'; the
\* other names come in the order of their declaration, and a file declaring
\* pypi, a blank line, internal, external gives exactly internal, external.
C24_PypiIsOmitted ==
    pc = "_read_index_servers returned" =>
        /\ \A i \in 1..Len(ret) : ret[i] /= "pypi"
        /\ ret = SelectSeq(rcfile.index_servers, LAMBDA e : e \in ServerNames)
        /\ (/\ rcfile.distutils = "ok"
            /\ Len(rcfile.index_servers) = 4
            /\ rcfile.index_servers[1] = "pypi"
            /\ rcfile.index_servers[2] = ""
            /\ rcfile.index_servers[3] = "internal"
            /\ rcfile.index_servers[4] = "external") =>
              /\ Len(ret) = 2
              /\ ret[1] = "internal"
              /\ ret[2] = "external"

C24_Witness ==
    /\ pc = "_read_index_servers returned"
    /\ rcfile = Pypirc
    /\ Len(ret) = 2
    /\ ret[1] = "internal"
    /\ ret[2] = "external"

-----------------------------------------------------------------------------
(* Further properties of the batch, under Spec *)

\* number of times the attempt of the i-th file was announced
CountAttempts(i) ==
    Cardinality({ k \in 1..Len(log) : log[k].idx = i /\ IsUploadingWrite(log[k]) })

\* the call of upload for the i-th file is over
UploadOver(i) == i < idx \/ (i = idx /\ pc \in {"report", "crashed", "done"})

\* the status the server answered for the i-th file, 0 when it answered nothing
StatusOfFile(i) ==
    IF \E k \in 1..Len(log) : log[k].ev = "status" /\ log[k].idx = i
    THEN log[CHOOSE k \in 1..Len(log) : log[k].ev = "status" /\ log[k].idx = i]
             .detail.status_code
    ELSE 0

\* C21: no file of the list is attempted, read or posted more than once, whatever
\* the server answered; and once the upload of a file is over, exactly one POST
\* was sent for it if the file was read, and none if it could not be read.
C21_OnePostPerAttempt ==
    \A i \in 1..Len(filenames) :
        /\ CountAttempts(i) <= 1
        /\ CountLog("post", i) <= 1
        /\ CountLog("read", i) + CountLog("open failed", i) <= 1
        /\ CountLog("status", i) <= CountLog("post", i)
        /\ UploadOver(i) =>
              /\ CountAttempts(i) = 1
              /\ CountLog("post", i) = CountLog("read", i)

\* a conflict, then a server error: one POST for each of the two files
C21_Witness ==
    /\ pc = "crashed"
    /\ Len(filenames) = 2
    /\ filenames[1] = filenames[2]
    /\ StatusOfFile(1) = 409
    /\ StatusOfFile(2) = 500
    /\ CountLog("post", 1) = 1
    /\ CountLog("post", 2) = 1
    /\ Cardinality({ k \in 1..Len(log) : log[k].ev = "post" }) = 2

\* what was read from the i-th file
ContentRead(i) ==
    log[CHOOSE k \in 1..Len(log) : log[k].ev = "read" /\ log[k].idx = i].detail

\* C23: every POST goes to the host of the uploader, and its body is the fixed
\* field ':action' = 'file_upload' and the single file part 'content', whose
\* filename is the last component of the path given and whose content is what was
\* read from the file at that path, whole and unchanged.
C23_RequestHostAndBody ==
    \A k \in 1..Len(log) : log[k].ev = "post" =>
        /\ log[k].detail.host = uploader.host
        /\ log[k].detail.data = << <<":action", "file_upload">> >>
        /\ DOMAIN log[k].detail.files = {"content"}
        /\ Len(log[k].detail.files.content) = 2
        /\ log[k].file = filenames[log[k].idx]
        /\ log[k].detail.files.content[1] = log[k].file[Len(log[k].file)]
        /\ CountLog("read", log[k].idx) = 1
        /\ log[k].detail.files.content[2] = ContentRead(log[k].idx)

C23_Witness ==
    /\ pc = "status"
    /\ idx = 2
    /\ filenames[2] = <<"packages", "b.tar.gz">>
    /\ uploader.host = "http://127.0.0.1:8000"
    /\ log[Len(log)].ev = "post"
    /\ log[Len(log)].detail.host = "http://127.0.0.1:8000"
    /\ log[Len(log)].detail.files.content = <<"b.tar.gz", "bytes2">>
    /\ ContentRead(1) = "bytes1"

\* the entries of the log that are POST requests
Posts == { k \in 1..Len(log) : log[k].ev = "post" }

\* C25: a run constructs one uploader, before anything else and never again; no
\* step of an upload, however it ends, changes its host, username, password,
\* action parameter or authentication; and every request of the run was sent to
\* that host with those credentials.
C25_OneUploaderForTheRun ==
    /\ [](/\ made <= 1
          /\ pc \notin {"make_uploader", "crashed"} => made = 1
          /\ made = 1 => uploader.data = << <<":action", "file_upload">> >>
          /\ Posts /= {} => made = 1
          /\ \A k \in Posts :
                /\ log[k].detail.host = uploader.host
                /\ log[k].detail.auth = uploader.auth
                /\ log[k].detail.data = uploader.data)
    /\ [][pc /= "make_uploader" => (uploader' = uploader /\ made' = made)]_vars

\* a success, then a transport failure, both sent with the credentials of the file
C25_Witness ==
    /\ pc = "crashed"
    /\ made = 1
    /\ Len(filenames) = 2
    /\ StatusOfFile(1) = 200
    /\ raised.type = "ConnectionError"
    /\ Cardinality(Posts) = 2
    /\ uploader.host = "http://127.0.0.1:8000"
    /\ uploader.username = "bar"
    /\ \A k \in Posts : log[k].detail.auth = <<"bar", "foo">>

\* the run is at or past the step named
PastMakeUploader == pc \notin {"make_uploader"} /\ made = 1
PastGetFilenames == PastMakeUploader /\ pc /= "get_filenames"

\* the entries of the log that belong to the upload step
UploadEntries == { k \in 1..Len(log) : log[k].ev /= "pip" }

\* C26: run makes the uploader, then gets the filenames, then uploads: pip runs only
\* once the uploader is made, only for 'packages' and 'requirements', and before
\* anything of the upload step; the upload step starts only once the filenames are
\* there, which for 'files' are the list given; and when making the uploader
\* fails on a lookup error of the config, nothing was downloaded, written, read or
\* posted, and nothing follows.
C26_StepsInFixedOrder ==
    /\ \A k \in 1..Len(log) : log[k].ev = "pip" =>
          /\ k = 1
          /\ made = 1
          /\ options.command \in {"packages", "requirements"}
    /\ (UploadEntries /= {} \/ stdout /= <<>>) => PastGetFilenames
    /\ (PastGetFilenames /\ options.command = "files") =>
          /\ filenames = options.files
          /\ \A k \in 1..Len(log) : log[k].ev /= "pip"
    /\ (PastGetFilenames /\ options.command /= "files" /\ pc /= "crashed") =>
          (log /= <<>> /\ log[1].ev = "pip")
    /\ ~PastGetFilenames => (filenames = <<>> /\ idx = 0)
    /\ (pc = "crashed" /\ made = 0) =>
          /\ raised.type \in {"NoSectionError", "NoOptionError"}
          /\ log = <<>>
          /\ stdout = <<>>
          /\ filenames = <<>>
          /\ uploader = NoUploader

C26_Witness ==
    /\ pc = "crashed"
    /\ made = 0
    /\ options.command = "requirements"
    /\ rcfile.exists
    /\ raised.type = "NoSectionError"
    /\ log = <<>>
    /\ stdout = <<>>

\* _upload_files has written its header
PastHeader ==
    \/ pc \in {"loop", "read", "post", "status", "report", "done"}
    \/ pc = "crashed" /\ idx >= 1

\* the upload of the idx-th file was announced and its outcome is not written
InsideUpload == pc \in {"read", "post", "status", "report", "crashed"} /\ idx >= 1

\* what was written, as the log has it
RECURSIVE WritesOf(_)
WritesOf(l) ==
    IF l = <<>> THEN <<>>
    ELSE IF Head(l).ev = "write" THEN <<Head(l).detail>> \o WritesOf(Tail(l))
    ELSE WritesOf(Tail(l))

\* position in the log of the first entry of kind ev for the i-th file, 0 if none
FirstLog(ev, i) ==
    IF \E k \in 1..Len(log) : log[k].ev = ev /\ log[k].idx = i
    THEN CHOOSE k \in 1..Len(log) :
            /\ log[k].ev = ev /\ log[k].idx = i
            /\ \A j \in 1..(k - 1) : ~(log[j].ev = ev /\ log[j].idx = i)
    ELSE 0

\* C27: the output is the header with the host of the uploader, once and before
\* any read or POST, also when there is nothing to upload; then for each file
\* attempted 'Uploading {filename}... ', written before the file is read or
\* posted, followed by 'success.' or 'already uploaded.', one of them and once:
\* 'already uploaded.' exactly after a conflict, 'success.' only after an upload
\* that read, posted and raised nothing; nothing follows the announcement of
\* a file whose upload ended with another error.
C27_OutputOfTheBatch ==
    /\ stdout = WritesOf(log)
    /\ ~PastHeader => stdout = <<>>
    /\ PastHeader =>
          /\ Len(stdout) = 1 + 2 * (idx - 1) + (IF InsideUpload THEN 1 ELSE 0)
          /\ stdout[1] = <<"Uploading packages to ", uploader.host, "\n">>
          /\ \A k \in 1..Len(log) :
                log[k].ev \in {"read", "open failed", "post"} => FirstLog("write", 0) < k
          /\ \A i \in 1..Len(filenames) : 2 * i <= Len(stdout) =>
                /\ stdout[2 * i] = <<"Uploading ">> \o filenames[i] \o <<"... ">>
                /\ \A k \in 1..Len(log) :
                      (log[k].idx = i /\ log[k].ev /= "write") => FirstLog("write", i) < k
          /\ \A i \in 1..Len(filenames) : 2 * i + 1 <= Len(stdout) =>
                /\ stdout[2 * i + 1] \in { <<"success.\n">>, <<"already uploaded.\n">> }
                /\ stdout[2 * i + 1] = <<"already uploaded.\n">> <=> StatusOfFile(i) = 409
                /\ stdout[2 * i + 1] = <<"success.\n">> =>
                      /\ CountLog("read", i) = 1
                      /\ CountLog("post", i) = 1
                      /\ CountLog("status", i) = 1
                      /\ ~(400 <= StatusOfFile(i) /\ StatusOfFile(i) <= 599)
          /\ pc = "crashed" =>
                /\ Len(stdout) = 2 * idx
                /\ raised.type /= "PackageConflictError"

\* nothing was downloaded: the header alone is written
C27_Witness ==
    /\ pc = "done"
    /\ options.command = "packages"
    /\ filenames = <<>>
    /\ uploader.host = "http://127.0.0.1:8000"
    /\ stdout = << <<"Uploading packages to ", "http://127.0.0.1:8000", "\n">> >>

\* C28: every POST comes after the read of its file, and what it sends is what
\* that read returned; when the file cannot be read, the error of the read is
\* what leaves upload, and no POST is sent for that file, then or later.
C28_ReadBeforePost ==
    /\ \A k \in Posts :
          /\ FirstLog("read", log[k].idx) >= 1
          /\ FirstLog("read", log[k].idx) < k
          /\ FirstLog("open failed", log[k].idx) = 0
          /\ log[k].detail.files.content[2] = log[FirstLog("read", log[k].idx)].detail
    /\ pc = "post" => (CountLog("read", idx) = 1 /\ files.content[2] = ContentRead(idx))
    /\ \A i \in 1..Len(filenames) : CountLog("open failed", i) >= 1 =>
          /\ i = idx
          /\ CountLog("read", i) = 0
          /\ CountLog("post", i) = 0
          /\ CountLog("status", i) = 0
          /\ pc \in {"report", "crashed"}
          /\ result.kind = "raised"
          /\ result.exc.type = "IOError"
          /\ response = NoResponse
          /\ pc = "crashed" => raised = result.exc

\* the second file cannot be read: one POST, for the first file, and the error out
C28_Witness ==
    /\ pc = "crashed"
    /\ idx = 2
    /\ raised.type = "IOError"
    /\ CountLog("open failed", 2) = 1
    /\ CountLog("post", 1) = 1
    /\ Cardinality(Posts) = 1
    /\ Len(stdout) = 4

-----------------------------------------------------------------------------
(* Further properties of the construction of the uploader, under SpecRC *)

UploaderConstructed ==
    pc \in {"from_rc_file returned", "from_repository_config returned"}

\* C22: the session of a constructed uploader carries the authentication
\* (username, password) exactly when the uploader has a username (one that is
\* neither None nor empty); without one the session has no authentication, also
\* when a password was supplied.
C22_AuthIffUsername ==
    UploaderConstructed =>
        /\ (uploader.username /= None /\ uploader.username /= "") =>
              uploader.auth = <<uploader.username, uploader.password>>
        /\ (uploader.username = None \/ uploader.username = "") =>
              uploader.auth = <<>>
        /\ uploader.auth /= <<>> <=> (uploader.username /= None /\ uploader.username /= "")

C22_Witness ==
    /\ pc = "from_rc_file returned"
    /\ options.username = None
    /\ options.password = "secret"
    /\ uploader.username = None
    /\ uploader.password = "secret"
    /\ uploader.auth = <<>>

-----------------------------------------------------------------------------
(* PackageDownloader.download called on its own, as tests/test_download.py *)
(* calls it: options holds the arguments (packages is the requirements     *)
(* list, download_dir the path given to the constructor).                  *)

RequirementsLists ==
    { NoPackages,
      [given |-> TRUE, items |-> <<>>],
      [given |-> TRUE, items |-> <<"mock">>],
      [given |-> TRUE, items |-> <<"requests==1.2.1", "mock">>] }

DownloadArguments ==
    [command : {"packages"}, index : {"internal"}, username : {None},
     password : {None}, files : { <<>> }, packages : RequirementsLists,
     requirements_file : {None, "requirements.txt"},
     download_dir : {None, "/foo/bar"}, no_use_wheel : BOOLEAN]

InitDownload == InitWith(DownloadArguments, {NoFile}, {NoneConfig}, "new_downloader")

DownloadFrame ==
    UNCHANGED <<options, rcfile, uploader, made, repo_config, idx, files, response,
                result, stdout, nextId>>

\* PackageDownloader.__init__
NewDownloader ==
    /\ pc = "new_downloader"
    /\ downloader' = [download_path |-> options.download_dir]
    /\ pc' = "_make_download_dir"
    /\ UNCHANGED <<ret, filenames, log, raised>>
    /\ DownloadFrame

\* PackageDownloader._make_download_dir (download, line 70)
MakeDownloadDir ==
    /\ pc = "_make_download_dir"
    /\ downloader' = IF downloader.download_path = None
                     THEN [download_path |-> "mkdtemp"]
                     ELSE downloader
    /\ pc' = "_build_args"
    /\ UNCHANGED <<ret, filenames, log, raised>>
    /\ DownloadFrame

\* download, line 71
DownloadBuildArgs ==
    /\ pc = "_build_args"
    /\ LET args == BuildArgs(downloader.download_path, options.packages,
                             options.requirements_file, options.no_use_wheel)
       IN  IF args.kind = "raise"
           THEN /\ raised' = args.exc
                /\ pc' = "download raised"
                /\ UNCHANGED ret
           ELSE /\ ret' = args.value
                /\ pc' = "pip.main"
                /\ UNCHANGED raised
    /\ UNCHANGED <<downloader, filenames, log>>
    /\ DownloadFrame

\* download, line 72: pip.main(args)
PipMain ==
    /\ pc = "pip.main"
    /\ log' = Append(log, LogEntry("pip", 0, <<>>, ret))
    /\ pc' = "_list_download_dir"
    /\ UNCHANGED <<downloader, ret, filenames, raised>>
    /\ DownloadFrame

\* download, line 73, and the files the returned generator yields
ListDownloadDir ==
    /\ pc = "_list_download_dir"
    /\ \E listed \in SeqsUpTo(Paths, MaxFiles) : filenames' = listed
    /\ pc' = "download returned"
    /\ UNCHANGED <<downloader, ret, log, raised>>
    /\ DownloadFrame

NextDownload ==
    \/ NewDownloader
    \/ MakeDownloadDir
    \/ DownloadBuildArgs
    \/ PipMain
    \/ ListDownloadDir

SpecDownload == InitDownload /\ [][NextDownload]_vars

\* the runs of pip
PipRuns == { k \in 1..Len(log) : log[k].ev = "pip" }

DownloadEnded == pc \in {"download returned", "download raised"}

\* C29: download runs pip at most once; when a requirements list or a requirements
\* file is given it returns after exactly one run of pip, whose arguments end with
\* the names of the list when the list is given, also when the file is given
\* too, and with '-r' and the file only when no list is given; when neither is
\* given it raises ValueError and pip has not run.
C29_PipOnceOrValueError ==
    /\ Cardinality(PipRuns) <= 1
    /\ DownloadEnded =>
          LET list == options.packages
              file == options.requirements_file
              head == <<"download", "-d",
                        IF options.download_dir = None THEN "mkdtemp"
                        ELSE options.download_dir>>
                      \o (IF options.no_use_wheel THEN <<"--no-binary", ":all:">>
                          ELSE <<>>)
          IN  /\ list.given =>
                    /\ pc = "download returned"
                    /\ Cardinality(PipRuns) = 1
                    /\ log[1].detail = head \o list.items
                    /\ \A i \in 1..Len(log[1].detail) : log[1].detail[i] /= "-r"
              /\ (~list.given /\ file /= None) =>
                    /\ pc = "download returned"
                    /\ Cardinality(PipRuns) = 1
                    /\ log[1].detail = head \o <<"-r", file>>
              /\ (~list.given /\ file = None) =>
                    /\ pc = "download raised"
                    /\ raised.type = "ValueError"
                    /\ PipRuns = {}
                    /\ filenames = <<>>

\* the list and the file are both given: pip gets the list
C29_Witness ==
    /\ pc = "download returned"
    /\ options.packages.items = <<"requests==1.2.1", "mock">>
    /\ options.requirements_file = "requirements.txt"
    /\ options.download_dir = "/foo/bar"
    /\ ~options.no_use_wheel
    /\ Len(log) = 1
    /\ log[1].detail = <<"download", "-d", "/foo/bar", "requests==1.2.1", "mock">>

====
